---- MODULE Spec2Model ----
(***************************************************************************)
(* Model of the syntaxExtractor VS Code extension glue.                    *)
(*                                                                         *)
(* The repository holds three versions of the extension entry point:       *)
(*   "js"  : src/unnamed/part_000 lines 1-113  (showWebview, currentPanel) *)
(*   "ts"  : src/unnamed/part_000 lines 115-366 (openWebviewAndExplorer-   *)
(*           Sidebar, globalPanel, clipBoardPolling, handleReceivedMessage)*)
(*   "gui" : src/src/extension.ts (command syntaxExtractor.openGui)        *)
(* One of them is the running extension; `variant` says which.             *)
(*                                                                         *)
(* Texts (clipboard contents, message texts, file-type suffixes) are       *)
(* sequences of Unicode code points.  Panels are numbered 1, 2, ... in the *)
(* order of their creation; 0 stands for `undefined`.                      *)
(***************************************************************************)
EXTENDS Integers, Sequences, FiniteSets, TLC

VARIABLES
    variant,                \* which entry point is the running extension
    live,                   \* panels created and not yet disposed
    nextId,                 \* number of panels created so far
    html,                   \* html[p]: what was assigned to panel p's webview.html
    revealed,               \* panel on which reveal() was last called (0: never)
    currentPanel,           \* part_000:7
    globalPanel,            \* part_000:151
    warnings,               \* number of showWarningMessage calls
    extractCount,           \* number of extractCode calls
    extractArg,             \* argument of the last extractCode call
    clipboard,              \* content of the system clipboard
    clipLeft,               \* clipboard changes the environment may still make
    pollers,                \* one record per clipBoardPolling call
    box,                    \* box[p]: the last updateClipboardDataBox message posted to
                            \*         live panel p, as a sequence of length 0 or 1
    fwd,                    \* fwd[p]: whether updates carrying the current clipboard
                            \*         content were posted to p since the clipboard last
                            \*         changed: "none", "once" or "again"
    sinceChange,            \* panels that were live when the clipboard last changed
    posted,                 \* the messages, other than updateClipboardDataBox ones, that
                            \* the last step of a handler posted, in their order
    loading,                \* panels whose composeWebViewContent call is in flight
    fileTypes,              \* configuration store: fileTypes
    compressionLevel,       \* configuration store: compressionLevel
    clipboardDataBoxHeight, \* configuration store: clipboardDataBoxHeight
    handlers,               \* handleReceivedMessage calls suspended at an await
    actPc,                  \* position of activate (part_000:127)
    workspaceFolders,       \* vscode.workspace.workspaceFolders
    settingsReadable,       \* whether reading .vscode/settings.json succeeds
    actInitRuns             \* initializeFileTypeConfiguration calls made by activate

vars == <<variant, live, nextId, html, revealed, currentPanel, globalPanel,
          warnings, extractCount, extractArg, clipboard, clipLeft, pollers,
          box, fwd, sinceChange, posted, loading, fileTypes, compressionLevel,
          clipboardDataBoxHeight, handlers, actPc, workspaceFolders,
          settingsReadable, actInitRuns>>

panelVars == <<live, nextId, html, revealed, currentPanel, globalPanel>>
cmdVars == <<warnings, extractCount, extractArg>>
clipVars == <<clipboard, clipLeft, pollers, box, fwd, sinceChange>>
configVars == <<fileTypes, compressionLevel, clipboardDataBoxHeight>>
actVars == <<actPc, workspaceFolders, settingsReadable, actInitRuns>>

----------------------------------------------------------------------------
(* Bounds *)

MaxPanels == 3      \* panels created in one run
MaxCmds == 3        \* invocations of codeExtractor.extractCode in one run
MaxPollers == 4     \* clipBoardPolling calls in one run
ClipPanels == 2     \* the same three, and the clipboard's changes and the reads
ClipPollers == 2    \* of one interval in flight at once, where the pollers run
ClipPending == 2
ClipChanges == 2
LivePollers == 1    \* and where they run under fair scheduling
LivePending == 2
LiveChanges == 2
MaxHandlers == 2    \* handleReceivedMessage calls suspended at once
MaxTypes == 2       \* length of a file-type list carried by a message
MsgHandlers == 1    \* the same two, where the webview sends every command
MsgTypes == 1

\* The bounds an action is taken under.
SpecBounds == [panels |-> MaxPanels, pollers |-> MaxPollers, pending |-> 0]
ClipBounds == [panels |-> ClipPanels, pollers |-> ClipPollers, pending |-> ClipPending]
CloseBounds == [panels |-> ClipPanels, pollers |-> LivePollers, pending |-> LivePending,
                handlers |-> MsgHandlers]
LiveBounds == [panels |-> MaxPanels, pollers |-> LivePollers, pending |-> LivePending]
MsgBounds == [handlers |-> MsgHandlers]
ActBounds == [panels |-> ClipPanels, pollers |-> LivePollers, pending |-> 0]
ToggleBounds == [handlers |-> MaxHandlers]

----------------------------------------------------------------------------
(* Values *)

\* `undefined`, as the value of a panel reference or of an optional argument.
Undefined == 0

Panels == 1..MaxPanels

\* Texts are sequences of code points: 97 'a', 84 'T', 116 't', 46 '.',
\* 32 ' ', 128512 U+1F600 (outside the Basic Multilingual Plane).
EmptyText == <<>>
TextA == <<97>>
TextAstral == <<128512>>

\* Number of UTF-16 code units a code point occupies in a JavaScript string.
Utf16Units(c) == IF c > 65535 THEN 2 ELSE 1

\* String.prototype.length (part_000:257, 262, 313): UTF-16 code units.
RECURSIVE JsLength(_)
JsLength(text) ==
    IF text = <<>> THEN 0 ELSE Utf16Units(Head(text)) + JsLength(Tail(text))

\* Number of Unicode scalar values of a text.
ScalarCount(text) == Len(text)

RECURSIVE Segments(_, _)
Segments(text, inWord) ==
    IF text = <<>> THEN 0
    ELSE IF Head(text) = 32 THEN Segments(Tail(text), FALSE)
    ELSE (IF inWord THEN 0 ELSE 1) + Segments(Tail(text), TRUE)

\* getTokenCount (./operations, not among the sources): a deterministic
\* whitespace-aware segmentation, 0 for the empty text (spec 4.5).
getTokenCount(text) == Segments(text, FALSE)

----------------------------------------------------------------------------
(* Entry point "js": part_000 lines 1-113 *)

Uris == {1, 2}
UriOpt == {Undefined} \cup Uris
\* The optional second argument: absent, or a list of uris.
UrisOpt ==
    {[present |-> FALSE, items |-> <<>>]}
    \cup {[present |-> TRUE, items |-> l] : l \in {<<>>, <<1>>, <<2>>, <<1, 2>>}}

\* part_000:14  (!uris || uris.length === 0)
NoUris(uris) == ~uris.present \/ Len(uris.items) = 0

\* As ExtractCodeCommand, without the `return` after the warning.
ExtractCodeCommandNoReturn(uri, uris) ==
    /\ variant = "js"
    /\ warnings + extractCount < MaxCmds
    /\ warnings' = IF NoUris(uris) /\ uri = Undefined THEN warnings + 1 ELSE warnings
    /\ extractCount' = extractCount + 1
    /\ extractArg' = IF NoUris(uris) THEN <<uri>> ELSE uris.items
    /\ UNCHANGED <<variant, panelVars, clipVars, posted, loading, configVars,
                   handlers, actVars>>

\* part_000:13-23, the command 'codeExtractor.extractCode'
ExtractCodeCommand(uri, uris) ==
    /\ variant = "js"
    /\ warnings + extractCount < MaxCmds
    /\ IF NoUris(uris) /\ uri = Undefined
       THEN /\ warnings' = warnings + 1
            /\ UNCHANGED <<extractCount, extractArg>>
       ELSE /\ extractCount' = extractCount + 1
            /\ extractArg' = IF NoUris(uris) THEN <<uri>> ELSE uris.items
            /\ UNCHANGED warnings
    /\ UNCHANGED <<variant, panelVars, clipVars, posted, loading, configVars,
                   handlers, actVars>>

\* part_000:78-91  getWebviewContent: the text the panel gets
getWebviewContent(readOk) == IF readOk THEN "content" ELSE "error"

\* As showWebview, without the `if (currentPanel)` test.
showWebviewAlwaysCreates(readOk) ==
    /\ nextId < MaxPanels
    /\ nextId' = nextId + 1
    /\ currentPanel' = nextId + 1
    /\ live' = live \cup {nextId + 1}
    /\ html' = [html EXCEPT ![nextId + 1] = getWebviewContent(readOk)]
    /\ UNCHANGED <<variant, revealed, globalPanel, cmdVars, clipVars, posted,
                   loading, configVars, handlers, actVars>>

\* part_000:49-76
showWebview(readOk) ==
    /\ IF currentPanel # Undefined
       THEN /\ revealed' = currentPanel
            /\ UNCHANGED <<live, nextId, html, currentPanel>>
       ELSE /\ nextId < MaxPanels
            /\ nextId' = nextId + 1
            /\ currentPanel' = nextId + 1
            /\ live' = live \cup {nextId + 1}
            /\ html' = [html EXCEPT ![nextId + 1] = getWebviewContent(readOk)]
            /\ UNCHANGED revealed
    /\ UNCHANGED <<variant, globalPanel, cmdVars, clipVars, posted, loading,
                   configVars, handlers, actVars>>

\* part_000:26-29, the command 'syntaxExtractor.openExplorer'
OpenExplorerCommand ==
    /\ variant = "js"
    /\ \E readOk \in BOOLEAN : showWebview(readOk)

\* part_000:39-43, treeView.onDidChangeVisibility
JsTreeViewVisibility(visible) ==
    /\ variant = "js"
    /\ IF visible
       THEN \E readOk \in BOOLEAN : showWebview(readOk)
       ELSE UNCHANGED vars

\* part_000:73-75: the user closes panel p; onDidDispose runs
JsDispose(p) ==
    /\ variant = "js"
    /\ p \in live
    /\ live' = live \ {p}
    /\ currentPanel' = Undefined
    /\ UNCHANGED <<variant, nextId, html, revealed, globalPanel, cmdVars,
                   clipVars, posted, loading, configVars, handlers, actVars>>

----------------------------------------------------------------------------
(* Entry point "gui": src/src/extension.ts *)

\* extension.ts:13-37, the command 'syntaxExtractor.openGui'.  readFileSync
\* (extension.ts:60) throws when webview.html cannot be read: the panel
\* exists, its html is never assigned.
OpenGuiCommand(readOk) ==
    /\ variant = "gui"
    /\ nextId < MaxPanels
    /\ nextId' = nextId + 1
    /\ live' = live \cup {nextId + 1}
    /\ html' = IF readOk THEN [html EXCEPT ![nextId + 1] = "content"] ELSE html
    /\ UNCHANGED <<variant, revealed, currentPanel, globalPanel, cmdVars,
                   clipVars, posted, loading, configVars, handlers, actVars>>

\* The user closes panel p (no onDidDispose listener is registered).
GuiDispose(p) ==
    /\ variant = "gui"
    /\ p \in live
    /\ live' = live \ {p}
    /\ UNCHANGED <<variant, nextId, html, revealed, currentPanel, globalPanel,
                   cmdVars, clipVars, posted, loading, configVars, handlers,
                   actVars>>

----------------------------------------------------------------------------
(* Entry point "ts": part_000 lines 115-366.  Panel and clipboard poller *)

ClipContents == {EmptyText, TextA}

NoReads == [c \in ClipContents |-> 0]

RECURSIVE SumReads(_, _)
SumReads(reads, S) ==
    IF S = {} THEN 0
    ELSE LET c == CHOOSE x \in S : TRUE IN reads[c] + SumReads(reads, S \ {c})

\* The configuration as the store's getters return it.
ConfigFields ==
    [fileTypes |-> fileTypes, compressionLevel |-> compressionLevel,
     clipboardDataBoxHeight |-> clipboardDataBoxHeight]

\* part_000:348-355 (sendConfigToWebview, called at 365) and 216-221
InitConfigMsg(p) ==
    [command |-> "initConfig", to |-> p, config |-> ConfigFields]

\* part_000:301-304: the message of an interval tick
TickMsg(content) ==
    [command |-> "updateClipboardDataBox", content |-> content]

\* part_000:312-319: the message of the initial read
InitialMsg(content) ==
    [command |-> "updateClipboardDataBox", content |-> content,
     tokenCount |-> getTokenCount(content), charCount |-> JsLength(content)]

\* panel.webview.postMessage of an updateClipboardDataBox message to panel p:
\* the webview of a live panel receives it; a disposed panel has no webview.
PostUpdate(p, msg) ==
    IF p \in live
    THEN /\ box' = [box EXCEPT ![p] = <<msg>>]
         /\ fwd' = IF msg.content = clipboard
                   THEN [fwd EXCEPT ![p] = IF @ = "none" THEN "once" ELSE "again"]
                   ELSE fwd
    ELSE UNCHANGED <<box, fwd>>

\* part_000:294-308: clipBoardPolling(p) up to its first await: a fresh
\* lastKnownClipboardContent, an interval that is never cleared, and the
\* initial readText under way.
StartPolling(p) ==
    pollers' = Append(pollers,
                      [panel |-> p, last |-> EmptyText, init |-> {clipboard},
                       reads |-> NoReads])

\* part_000:174-226
openWebviewAndExplorerSidebar(b) ==
    /\ IF globalPanel # Undefined
       THEN /\ revealed' = globalPanel
            /\ UNCHANGED <<live, nextId, globalPanel, loading, pollers, posted>>
       ELSE /\ nextId < b.panels
            /\ Len(pollers) < b.pollers
            /\ nextId' = nextId + 1
            /\ globalPanel' = nextId + 1
            /\ live' = live \cup {nextId + 1}
            /\ loading' = loading \cup {nextId + 1}
            /\ StartPolling(nextId + 1)
            /\ posted' = <<InitConfigMsg(nextId + 1), InitConfigMsg(nextId + 1)>>
            /\ UNCHANGED revealed
    /\ UNCHANGED <<variant, html, currentPanel, cmdVars, clipboard, clipLeft, sinceChange,
                   box, fwd, configVars, handlers, actVars>>

\* part_000:130, the command 'extension.createWebview', registered by activate
\* before its first await
CreateWebviewCommand(b) ==
    /\ variant = "ts"
    /\ actPc # "start"
    /\ openWebviewAndExplorerSidebar(b)

\* part_000:135-139, treeView.onDidChangeVisibility, registered by activate
\* before its first await
TsTreeViewVisibility(visible, b) ==
    /\ variant = "ts"
    /\ actPc # "start"
    /\ IF visible THEN openWebviewAndExplorerSidebar(b) ELSE UNCHANGED vars

\* As composeWebViewContent, without the catch of part_000:340-343: the failed
\* read rejects the call, and the html is left as it was at creation.
composeWebViewContentNoCatch(readOk) == IF readOk THEN "content" ELSE "unset"

\* part_000:324-344  composeWebViewContent: the text it resolves to
composeWebViewContent(readOk) == IF readOk THEN "content" ELSE "error"

\* part_000:194-196: the awaited composeWebViewContent settles and the html of
\* the webview the call was started for is assigned.
HtmlLoadDone(p, readOk) ==
    /\ variant = "ts"
    /\ p \in loading
    /\ loading' = loading \ {p}
    /\ html' = [html EXCEPT ![p] = composeWebViewContent(readOk)]
    /\ UNCHANGED <<variant, live, nextId, revealed, currentPanel, globalPanel,
                   cmdVars, clipVars, posted, configVars, handlers, actVars>>

\* As TsDispose, with an onDidDispose that leaves globalPanel as it is.
TsDisposeKeepsReference(p) ==
    /\ variant = "ts"
    /\ p \in live
    /\ live' = live \ {p}
    /\ UNCHANGED <<variant, nextId, html, revealed, currentPanel, globalPanel,
                   cmdVars, clipVars, posted, loading, configVars, handlers,
                   actVars>>

\* part_000:188-191: the user closes panel p; onDidDispose runs
TsDispose(p) ==
    /\ variant = "ts"
    /\ p \in live
    /\ live' = live \ {p}
    /\ globalPanel' = Undefined
    /\ UNCHANGED <<variant, nextId, html, revealed, currentPanel, cmdVars,
                   clipVars, posted, loading, configVars, handlers, actVars>>

\* part_000:358-363: panel.onDidChangeViewState
ViewStateChange(p, visible, b) ==
    /\ variant = "ts"
    /\ p \in live
    /\ IF visible
       THEN /\ Len(pollers) < b.pollers
            /\ posted' = <<InitConfigMsg(p)>>
            /\ StartPolling(p)
            /\ UNCHANGED <<variant, panelVars, cmdVars, clipboard, clipLeft, sinceChange,
                           box, fwd, loading, configVars, handlers, actVars>>
       ELSE UNCHANGED vars

\* part_000:297-298: the interval of poller i fires and starts a readText
IntervalTick(i, b) ==
    /\ variant = "ts"
    /\ i \in 1..Len(pollers)
    /\ SumReads(pollers[i].reads, ClipContents) < b.pending
    /\ pollers' = [pollers EXCEPT ![i].reads[clipboard] = @ + 1]
    /\ UNCHANGED <<variant, panelVars, cmdVars, clipboard, clipLeft, sinceChange, box, fwd,
                   posted, loading, configVars, handlers, actVars>>

\* As TickReadDone, with `===` for `!==` in the test of part_000:299.
TickReadDoneWhenSame(i, c) ==
    /\ variant = "ts"
    /\ i \in 1..Len(pollers)
    /\ pollers[i].reads[c] > 0
    /\ pollers' = [pollers EXCEPT ![i].reads[c] = @ - 1]
    /\ IF c = pollers[i].last
       THEN PostUpdate(pollers[i].panel, [command |-> "updateClipboardDataBox",
                                          content |-> c])
       ELSE UNCHANGED <<box, fwd>>
    /\ UNCHANGED <<variant, panelVars, cmdVars, clipboard, clipLeft, sinceChange,
                   posted, loading, configVars, handlers, actVars>>

\* part_000:299-305: a readText started by the interval of poller i settles
\* with content c (reads settle in any order)
TickReadDone(i, c) ==
    /\ variant = "ts"
    /\ i \in 1..Len(pollers)
    /\ pollers[i].reads[c] > 0
    /\ IF c # pollers[i].last
       THEN /\ pollers' = [pollers EXCEPT ![i].reads[c] = @ - 1, ![i].last = c]
            /\ PostUpdate(pollers[i].panel, TickMsg(c))
       ELSE /\ pollers' = [pollers EXCEPT ![i].reads[c] = @ - 1]
            /\ UNCHANGED <<box, fwd>>
    /\ UNCHANGED <<variant, panelVars, cmdVars, clipboard, clipLeft, sinceChange, posted,
                   loading, configVars, handlers, actVars>>

\* part_000:308-320: the initial readText of poller i settles
InitialReadDone(i) ==
    /\ variant = "ts"
    /\ i \in 1..Len(pollers)
    /\ pollers[i].init # {}
    /\ LET c == CHOOSE x \in pollers[i].init : TRUE IN
       IF c # pollers[i].last
       THEN /\ pollers' = [pollers EXCEPT ![i].init = {}, ![i].last = c]
            /\ PostUpdate(pollers[i].panel, InitialMsg(c))
       ELSE /\ pollers' = [pollers EXCEPT ![i].init = {}]
            /\ UNCHANGED <<box, fwd>>
    /\ UNCHANGED <<variant, panelVars, cmdVars, clipboard, clipLeft, sinceChange, posted,
                   loading, configVars, handlers, actVars>>

\* The user or another program copies content c to the system clipboard.
ClipboardChange(c) ==
    /\ variant = "ts"
    /\ clipLeft > 0
    /\ c # clipboard
    /\ clipboard' = c
    /\ clipLeft' = clipLeft - 1
    /\ fwd' = [p \in Panels |-> "none"]
    /\ sinceChange' = live
    /\ UNCHANGED <<variant, panelVars, cmdVars, pollers, box, posted, loading,
                   configVars, handlers, actVars>>

----------------------------------------------------------------------------
(* Entry point "ts": handleReceivedMessage and the configuration store *)

\* File-type suffixes: ".t" and ".T".
DotT == <<46, 116>>
DotUpperT == <<46, 84>>
TypeNames == {DotT, DotUpperT}
TypeLists == UNION {[1..n -> TypeNames] : n \in 0..MaxTypes}
MsgLists == UNION {[1..n -> TypeNames] : n \in 0..MsgTypes}
Levels == {"none", "full"}
Heights == {"h1", "h2"}
Texts == {EmptyText, TextA, TextAstral}

\* What initializeFileTypeConfiguration (./operations/initializeFileTypes, not
\* among the sources) stores: the suffixes present in the workspace (spec 6).
DetectedTypes == <<DotT>>

\* Array.prototype.indexOf (part_000:266): the first index of t, 0 for -1.
RECURSIVE IndexOf(_, _, _)
IndexOf(list, t, k) ==
    IF k > Len(list) THEN 0
    ELSE IF list[k] = t THEN k
    ELSE IndexOf(list, t, k + 1)

\* part_000:266-271: splice the first occurrence out, or push.
ToggleFileType(list, t) ==
    LET k == IndexOf(list, t, 1) IN
    IF k > 0
    THEN SubSeq(list, 1, k - 1) \o SubSeq(list, k + 1, Len(list))
    ELSE Append(list, t)

\* part_000:281-290
ConfigUpdatedMsg(p, ft, level, height) ==
    [command |-> "configUpdated", to |-> p,
     config |-> [fileTypes |-> ft, compressionLevel |-> level,
                 clipboardDataBoxHeight |-> height]]

\* The commands whose case awaits a write to the store or the rescan
\* (part_000:236-248, 264-272).
Awaiting == {"refreshFileTypes", "setCompressionLevel", "setFileTypes",
             "setClipboardDataBoxHeight", "updateFileTypes"}

\* part_000:249-263: the messages the synchronous cases post
CasePosts(p, msg) ==
    IF msg.command = "countTokens"
    THEN <<[command |-> "setTokenCount", to |-> p, count |-> getTokenCount(msg.text)]>>
    ELSE IF msg.command = "countChars"
    THEN <<[command |-> "setCharCount", to |-> p, count |-> JsLength(msg.text)]>>
    ELSE IF msg.command = "requestCounts"
    THEN <<[command |-> "setTokenCount", to |-> p, count |-> getTokenCount(msg.text)],
           [command |-> "setCharCount", to |-> p, count |-> JsLength(msg.text)]>>
    ELSE <<>>

\* What the awaited call of the case will store: the message's value, the
\* toggled list computed from the list read at part_000:265, or the rescan's.
Pending(msg) ==
    IF msg.command = "setCompressionLevel" THEN msg.level
    ELSE IF msg.command = "setFileTypes" THEN msg.fileTypes
    ELSE IF msg.command = "setClipboardDataBoxHeight" THEN msg.height
    ELSE IF msg.command = "updateFileTypes" THEN ToggleFileType(fileTypes, msg.fileType)
    ELSE DetectedTypes

\* part_000:264-266: the suffix an 'updateFileTypes' message names and the
\* list its handler read from the store (empty for the other commands).
Toggled(msg) == IF msg.command = "updateFileTypes" THEN msg.fileType ELSE <<>>
ListRead(msg) == IF msg.command = "updateFileTypes" THEN fileTypes ELSE <<>>

\* part_000:205-210 and 234-291: the webview's message arrives, and
\* handleReceivedMessage runs for globalPanel up to its first await of a call
\* that is not settled at once; the getters' awaits (part_000:265, 282-284)
\* settle in the same turn.
HandleMessage(msg, b) ==
    /\ variant = "ts"
    /\ globalPanel # Undefined
    /\ IF msg.command \in Awaiting
       THEN /\ Len(handlers) < b.handlers
            /\ handlers' = Append(handlers, [panel |-> globalPanel,
                                             command |-> msg.command,
                                             cur |-> Pending(msg),
                                             arg |-> Toggled(msg),
                                             base |-> ListRead(msg)])
            /\ posted' = <<>>
       ELSE /\ posted' = CasePosts(globalPanel, msg)
                           \o <<ConfigUpdatedMsg(globalPanel, fileTypes,
                                                 compressionLevel,
                                                 clipboardDataBoxHeight)>>
            /\ UNCHANGED handlers
    /\ UNCHANGED <<variant, panelVars, cmdVars, clipVars, loading, configVars,
                   actVars>>

\* handlers without its i-th element
RemoveAt(seq, i) == SubSeq(seq, 1, i - 1) \o SubSeq(seq, i + 1, Len(seq))

\* As HandlerResume, with the configuration read for the last configUpdated
\* message before the handler's own write has completed.
HandlerResumeReadsFirst(i) ==
    /\ variant = "ts"
    /\ i \in 1..Len(handlers)
    /\ LET h == handlers[i]
           c == h.command
       IN /\ fileTypes' = IF c \in {"setFileTypes", "updateFileTypes", "refreshFileTypes"}
                          THEN h.cur ELSE fileTypes
          /\ compressionLevel' = IF c = "setCompressionLevel" THEN h.cur
                                 ELSE compressionLevel
          /\ clipboardDataBoxHeight' = IF c = "setClipboardDataBoxHeight" THEN h.cur
                                       ELSE clipboardDataBoxHeight
          /\ posted' =
               (IF c = "refreshFileTypes"
                THEN <<[command |-> "refreshComplete", to |-> h.panel]>>
                ELSE IF c = "updateFileTypes"
                THEN <<[command |-> "configUpdated", to |-> h.panel,
                        fileTypes |-> h.cur]>>
                ELSE <<>>)
               \o <<ConfigUpdatedMsg(h.panel, fileTypes, compressionLevel,
                                     clipboardDataBoxHeight)>>
    /\ handlers' = RemoveAt(handlers, i)
    /\ UNCHANGED <<variant, panelVars, cmdVars, clipVars, loading, actVars>>

\* part_000:237-248, 272-290: the awaited call of suspended handler i settles:
\* the store holds what the call stored, and the handler runs to its end.
HandlerResume(i) ==
    /\ variant = "ts"
    /\ i \in 1..Len(handlers)
    /\ LET h == handlers[i]
           c == h.command
       IN /\ fileTypes' = IF c \in {"setFileTypes", "updateFileTypes", "refreshFileTypes"}
                          THEN h.cur ELSE fileTypes
          /\ compressionLevel' = IF c = "setCompressionLevel" THEN h.cur
                                 ELSE compressionLevel
          /\ clipboardDataBoxHeight' = IF c = "setClipboardDataBoxHeight" THEN h.cur
                                       ELSE clipboardDataBoxHeight
          /\ posted' =
               (IF c = "refreshFileTypes"
                THEN <<[command |-> "refreshComplete", to |-> h.panel]>>
                ELSE IF c = "updateFileTypes"
                THEN <<[command |-> "configUpdated", to |-> h.panel,
                        fileTypes |-> h.cur]>>
                ELSE <<>>)
               \o <<ConfigUpdatedMsg(h.panel, fileTypes', compressionLevel',
                                     clipboardDataBoxHeight')>>
    /\ handlers' = RemoveAt(handlers, i)
    /\ UNCHANGED <<variant, panelVars, cmdVars, clipVars, loading, actVars>>

----------------------------------------------------------------------------
(* Entry point "ts": activate, part_000:127-149 *)

\* vscode.workspace.workspaceFolders: undefined when no workspace is open, a
\* list of 0..n folders otherwise ("empty": a workspace without a folder).
FolderStates == {"undefined", "empty", "one"}

\* part_000:155-172  settingsFileExists: "true", "false", or "throws" when
\* workspaceFolders[0] is undefined and its .uri is read (part_000:162,
\* outside the try block).
settingsFileExists ==
    IF workspaceFolders = "undefined" THEN "false"
    ELSE IF workspaceFolders = "empty" THEN "throws"
    ELSE IF settingsReadable THEN "true"
    ELSE "false"

\* part_000:142-148: what activate does with the result of
\* settingsFileExists: it fails with the exception, or calls
\* initializeFileTypeConfiguration and awaits it, or ends.
AfterSettingsCheck ==
    IF settingsFileExists = "throws"
    THEN /\ actPc' = "failed"
         /\ UNCHANGED actInitRuns
    ELSE IF settingsFileExists = "false"
    THEN /\ actPc' = "initializing"
         /\ actInitRuns' = actInitRuns + 1
    ELSE /\ actPc' = "done"
         /\ UNCHANGED actInitRuns

\* part_000:128-142: the commands and the listener are registered and
\* settingsFileExists is called and awaited.  With a workspace folder the call
\* awaits readFile (part_000:166); without one it settles in the same turn,
\* and activate goes on before any command or event is served.
ActivateStart ==
    /\ variant = "ts"
    /\ actPc = "start"
    /\ IF workspaceFolders = "one"
       THEN /\ actPc' = "checking"
            /\ UNCHANGED actInitRuns
       ELSE AfterSettingsCheck
    /\ UNCHANGED <<variant, panelVars, cmdVars, clipVars, posted, loading,
                   configVars, handlers, workspaceFolders, settingsReadable>>

\* part_000:166-170 and 142-148: the readFile of settingsFileExists settles.
ActivateChecked ==
    /\ variant = "ts"
    /\ actPc = "checking"
    /\ AfterSettingsCheck
    /\ UNCHANGED <<variant, panelVars, cmdVars, clipVars, posted, loading,
                   configVars, handlers, workspaceFolders, settingsReadable>>

\* part_000:145: the awaited initializeFileTypeConfiguration settles, having
\* stored the suffixes it detected.
ActivateInitialized ==
    /\ variant = "ts"
    /\ actPc = "initializing"
    /\ actPc' = "done"
    /\ fileTypes' = DetectedTypes
    /\ UNCHANGED <<variant, panelVars, cmdVars, clipVars, posted, loading,
                   compressionLevel, clipboardDataBoxHeight, handlers,
                   workspaceFolders, settingsReadable, actInitRuns>>

\* part_000:133 and 228-229, the command 'extension.refreshFileTypes':
\* refreshFileTypes calls initializeFileTypeConfiguration and awaits it.
RefreshFileTypesCommand ==
    /\ variant = "ts"
    /\ actPc # "start"
    /\ Len(handlers) < MaxHandlers
    /\ handlers' = Append(handlers, [panel |-> Undefined,
                                     command |-> "extension.refreshFileTypes",
                                     cur |-> DetectedTypes,
                                     arg |-> <<>>, base |-> <<>>])
    /\ UNCHANGED <<variant, panelVars, cmdVars, clipVars, posted, loading,
                   configVars, actVars>>

\* part_000:230-231: the call awaited by run i of the command settles, having
\* stored the suffixes it detected.
RefreshFileTypesDone(i) ==
    /\ variant = "ts"
    /\ i \in 1..Len(handlers)
    /\ handlers[i].command = "extension.refreshFileTypes"
    /\ fileTypes' = handlers[i].cur
    /\ handlers' = RemoveAt(handlers, i)
    /\ UNCHANGED <<variant, panelVars, cmdVars, clipVars, posted, loading,
                   compressionLevel, clipboardDataBoxHeight, actVars>>

----------------------------------------------------------------------------
(* Specifications.                                                         *)
(* Spec: the three entry points' panels and commands.  The pollers' reads  *)
(* and the clipboard's changes, which neither read nor write a panel       *)
(* reference, run under SpecClip and SpecLive.                             *)

InitCommon ==
    /\ live = {}
    /\ nextId = 0
    /\ html = [p \in Panels |-> "unset"]
    /\ revealed = Undefined
    /\ currentPanel = Undefined
    /\ globalPanel = Undefined
    /\ warnings = 0
    /\ extractCount = 0
    /\ extractArg = <<>>
    /\ pollers = <<>>
    /\ box = [p \in Panels |-> <<>>]
    /\ fwd = [p \in Panels |-> "none"]
    /\ sinceChange = {}
    /\ posted = <<>>
    /\ loading = {}
    /\ fileTypes = <<>>
    /\ compressionLevel = "none"
    /\ clipboardDataBoxHeight = "h1"
    /\ handlers = <<>>
    /\ actPc = "done"
    /\ workspaceFolders = "one"
    /\ settingsReadable = TRUE
    /\ actInitRuns = 0

Init ==
    /\ variant \in {"js", "ts", "gui"}
    /\ clipboard \in ClipContents
    /\ clipLeft = 0
    /\ InitCommon

Next ==
    \/ \E uri \in UriOpt, uris \in UrisOpt : ExtractCodeCommand(uri, uris)
    \/ OpenExplorerCommand
    \/ \E visible \in BOOLEAN : JsTreeViewVisibility(visible)
    \/ \E p \in Panels : JsDispose(p)
    \/ \E readOk \in BOOLEAN : OpenGuiCommand(readOk)
    \/ \E p \in Panels : GuiDispose(p)
    \/ CreateWebviewCommand(SpecBounds)
    \/ \E visible \in BOOLEAN : TsTreeViewVisibility(visible, SpecBounds)
    \/ \E p \in Panels, readOk \in BOOLEAN : HtmlLoadDone(p, readOk)
    \/ \E p \in Panels : TsDispose(p)
    \/ \E p \in Panels, visible \in BOOLEAN : ViewStateChange(p, visible, SpecBounds)

Spec == Init /\ [][Next]_vars

\* SpecClip: entry point "ts" with its clipboard pollers running.
InitClip ==
    /\ variant = "ts"
    /\ clipboard \in ClipContents
    /\ clipLeft = ClipChanges
    /\ InitCommon

NextClip ==
    \/ CreateWebviewCommand(ClipBounds)
    \/ \E visible \in BOOLEAN : TsTreeViewVisibility(visible, ClipBounds)
    \/ \E p \in Panels : TsDispose(p)
    \/ \E p \in Panels, visible \in BOOLEAN : ViewStateChange(p, visible, ClipBounds)
    \/ \E i \in 1..ClipPollers : IntervalTick(i, ClipBounds)
    \/ \E i \in 1..ClipPollers, c \in ClipContents : TickReadDone(i, c)
    \/ \E i \in 1..ClipPollers : InitialReadDone(i)
    \/ \E c \in ClipContents : ClipboardChange(c)

SpecClip == InitClip /\ [][NextClip]_vars

\* SpecLive: one panel of entry point "ts" that stays open, its pollers
\* under fair scheduling: an interval set by setInterval (part_000:297) keeps
\* firing, and a readText that was started settles.  InitLive is the state
\* right after 'extension.createWebview' has created the panel.
InitLive ==
    /\ variant = "ts"
    /\ clipboard \in ClipContents
    /\ clipLeft = LiveChanges
    /\ live = {1}
    /\ nextId = 1
    /\ html = [p \in Panels |-> "unset"]
    /\ revealed = Undefined
    /\ currentPanel = Undefined
    /\ globalPanel = 1
    /\ warnings = 0
    /\ extractCount = 0
    /\ extractArg = <<>>
    /\ pollers = <<[panel |-> 1, last |-> EmptyText, init |-> {clipboard},
                    reads |-> NoReads]>>
    /\ box = [p \in Panels |-> <<>>]
    /\ fwd = [p \in Panels |-> "none"]
    /\ sinceChange = {}
    /\ fileTypes = <<>>
    /\ compressionLevel = "none"
    /\ clipboardDataBoxHeight = "h1"
    /\ posted = <<InitConfigMsg(1), InitConfigMsg(1)>>
    /\ loading = {1}
    /\ handlers = <<>>
    /\ actPc = "done"
    /\ workspaceFolders = "one"
    /\ settingsReadable = TRUE
    /\ actInitRuns = 0

NextLive ==
    \/ \E p \in Panels, visible \in BOOLEAN : ViewStateChange(p, visible, LiveBounds)
    \/ \E i \in 1..LivePollers : IntervalTick(i, LiveBounds)
    \/ \E i \in 1..LivePollers, c \in ClipContents : TickReadDone(i, c)
    \/ \E i \in 1..LivePollers : InitialReadDone(i)
    \/ \E c \in ClipContents : ClipboardChange(c)

FairLive ==
    /\ \A i \in 1..LivePollers : WF_vars(IntervalTick(i, LiveBounds))
    /\ \A i \in 1..LivePollers, c \in ClipContents : WF_vars(TickReadDone(i, c))
    /\ \A i \in 1..LivePollers : WF_vars(InitialReadDone(i))

SpecLive == InitLive /\ [][NextLive]_vars /\ FairLive

\* SpecMsg: the messages of the webview of one open panel of entry point
\* "ts".  InitMsg is a state after 'extension.createWebview' has created the
\* panel, with a stored file-type list that satisfies the store's invariant.
InitMsg ==
    /\ variant = "ts"
    /\ clipboard = EmptyText
    /\ clipLeft = 0
    /\ live = {1}
    /\ nextId = 1
    /\ html = [p \in Panels |-> "unset"]
    /\ revealed = Undefined
    /\ currentPanel = Undefined
    /\ globalPanel = 1
    /\ warnings = 0
    /\ extractCount = 0
    /\ extractArg = <<>>
    /\ pollers = <<[panel |-> 1, last |-> EmptyText, init |-> {EmptyText},
                    reads |-> NoReads]>>
    /\ box = [p \in Panels |-> <<>>]
    /\ fwd = [p \in Panels |-> "none"]
    /\ sinceChange = {}
    /\ fileTypes \in {<<>>, <<DotT>>}
    /\ compressionLevel = "none"
    /\ clipboardDataBoxHeight = "h1"
    /\ posted = <<InitConfigMsg(1), InitConfigMsg(1)>>
    /\ loading = {1}
    /\ handlers = <<>>
    /\ actPc = "done"
    /\ workspaceFolders = "one"
    /\ settingsReadable = TRUE
    /\ actInitRuns = 0

NextMsg ==
    \/ HandleMessage([command |-> "refreshFileTypes"], MsgBounds)
    \/ \E l \in Levels : HandleMessage([command |-> "setCompressionLevel", level |-> l], MsgBounds)
    \/ \E ft \in MsgLists : HandleMessage([command |-> "setFileTypes", fileTypes |-> ft], MsgBounds)
    \/ \E h \in Heights :
         HandleMessage([command |-> "setClipboardDataBoxHeight", height |-> h], MsgBounds)
    \/ HandleMessage([command |-> "openWebpage"], MsgBounds)
    \/ \E t \in Texts : HandleMessage([command |-> "countTokens", text |-> t], MsgBounds)
    \/ \E t \in Texts : HandleMessage([command |-> "countChars", text |-> t], MsgBounds)
    \/ \E t \in Texts : HandleMessage([command |-> "requestCounts", text |-> t], MsgBounds)
    \/ \E t \in TypeNames : HandleMessage([command |-> "updateFileTypes", fileType |-> t], MsgBounds)
    \/ HandleMessage([command |-> "unknown"], MsgBounds)
    \/ \E i \in 1..MsgHandlers : HandlerResume(i)

SpecMsg == InitMsg /\ [][NextMsg]_vars

\* SpecToggle: the file-type messages of the webview of one open panel,
\* with up to MaxHandlers handlers suspended at once.
InitToggle == InitMsg

NextToggle ==
    \/ \E ft \in TypeLists :
         HandleMessage([command |-> "setFileTypes", fileTypes |-> ft], ToggleBounds)
    \/ \E t \in TypeNames :
         HandleMessage([command |-> "updateFileTypes", fileType |-> t], ToggleBounds)
    \/ \E i \in 1..MaxHandlers : HandlerResume(i)

SpecToggle == InitToggle /\ [][NextToggle]_vars

\* SpecClose: entry point "ts" with a panel that the user closes while its
\* html load, its clipboard poller and a message handler are under way.
InitClose ==
    /\ variant = "ts"
    /\ clipboard \in ClipContents
    /\ clipLeft = LiveChanges
    /\ InitCommon

NextClose ==
    \/ CreateWebviewCommand(CloseBounds)
    \/ \E p \in Panels : TsDispose(p)
    \/ \E p \in Panels, readOk \in BOOLEAN : HtmlLoadDone(p, readOk)
    \/ \E i \in 1..ClipPanels : IntervalTick(i, CloseBounds)
    \/ \E i \in 1..ClipPanels, c \in ClipContents : TickReadDone(i, c)
    \/ \E i \in 1..ClipPanels : InitialReadDone(i)
    \/ \E c \in ClipContents : ClipboardChange(c)
    \/ \E l \in Levels :
         HandleMessage([command |-> "setCompressionLevel", level |-> l], CloseBounds)
    \/ HandleMessage([command |-> "countTokens", text |-> TextA], CloseBounds)
    \/ \E i \in 1..MsgHandlers : HandlerResume(i)

SpecClose == InitClose /\ [][NextClose]_vars

\* SpecAct: one activation of entry point "ts".
InitAct ==
    /\ variant = "ts"
    /\ clipboard = EmptyText
    /\ clipLeft = 0
    /\ live = {}
    /\ nextId = 0
    /\ html = [p \in Panels |-> "unset"]
    /\ revealed = Undefined
    /\ currentPanel = Undefined
    /\ globalPanel = Undefined
    /\ warnings = 0
    /\ extractCount = 0
    /\ extractArg = <<>>
    /\ pollers = <<>>
    /\ box = [p \in Panels |-> <<>>]
    /\ fwd = [p \in Panels |-> "none"]
    /\ sinceChange = {}
    /\ posted = <<>>
    /\ loading = {}
    /\ fileTypes \in TypeLists
    /\ compressionLevel = "none"
    /\ clipboardDataBoxHeight = "h1"
    /\ handlers = <<>>
    /\ actPc = "start"
    /\ workspaceFolders \in FolderStates
    /\ settingsReadable \in (IF workspaceFolders = "one" THEN BOOLEAN ELSE {FALSE})
    /\ actInitRuns = 0

NextAct ==
    \/ ActivateStart
    \/ ActivateChecked
    \/ ActivateInitialized
    \/ RefreshFileTypesCommand
    \/ \E i \in 1..MaxHandlers : RefreshFileTypesDone(i)
    \/ CreateWebviewCommand(ActBounds)
    \/ \E visible \in BOOLEAN : TsTreeViewVisibility(visible, ActBounds)

SpecAct == InitAct /\ [][NextAct]_vars

----------------------------------------------------------------------------
(* Claims checked under Spec *)

\* An open request of entry point "js" or "ts".
OpenRequest ==
    \/ OpenExplorerCommand
    \/ JsTreeViewVisibility(TRUE)
    \/ CreateWebviewCommand(SpecBounds)
    \/ TsTreeViewVisibility(TRUE, SpecBounds)

\* The panel reference of the running entry point.
PanelRef == IF variant = "js" THEN currentPanel ELSE globalPanel

\* C1: under entry points "js" and "ts", after any sequence of open requests
\* and panel disposals at most one webview panel is live, and an open request
\* issued while a panel is live reveals that panel and creates no new one.
C1_AtMostOnePanel ==
    /\ [](variant \in {"js", "ts"} => Cardinality(live) <= 1)
    /\ [][(variant \in {"js", "ts"} /\ OpenRequest /\ live # {})
            => (live' = live /\ nextId' = nextId /\ live = {revealed'})]_vars

\* An open request has revealed the one live panel.
C1_Witness ==
    /\ variant \in {"js", "ts"}
    /\ revealed # Undefined
    /\ live = {revealed}

\* C4: 'codeExtractor.extractCode' invoked with no selection (uris absent or
\* empty, and uri absent) shows one warning and does not call extractCode; in
\* every other case it calls extractCode once and shows no warning, with the
\* given uris when that list is non-empty and with [uri] otherwise.
C4_ExtractCodeCommand ==
    [][\A uri \in UriOpt, uris \in UrisOpt :
         ExtractCodeCommand(uri, uris) =>
           IF (~uris.present \/ uris.items = <<>>) /\ uri = Undefined
           THEN /\ warnings' = warnings + 1
                /\ extractCount' = extractCount
           ELSE /\ warnings' = warnings
                /\ extractCount' = extractCount + 1
                /\ extractArg' = IF uris.present /\ uris.items # <<>>
                                 THEN uris.items
                                 ELSE <<uri>>]_vars

\* The command has warned once and has called extractCode with a list of two.
C4_Witness ==
    /\ warnings = 1
    /\ extractCount >= 1
    /\ Len(extractArg) = 2

\* C7: the panel reference (currentPanel, globalPanel) is defined exactly when
\* its panel is live, and then it is the live panel; an open request made when
\* no panel is live creates a panel that never existed before, and a revealed
\* panel is a live one.
C7_ReferenceIffLive ==
    /\ [](variant \in {"js", "ts"} =>
            /\ (PanelRef # Undefined <=> live # {})
            /\ (PanelRef # Undefined => live = {PanelRef}))
    /\ [][(variant \in {"js", "ts"} /\ OpenRequest) =>
            IF PanelRef = Undefined
            THEN /\ nextId' = nextId + 1
                 /\ PanelRef' = nextId'
                 /\ live' = {PanelRef'}
            ELSE revealed' \in live']_vars

\* After a disposal an open request has created a second panel, now referenced.
C7_Witness ==
    /\ variant = "ts"
    /\ globalPanel > 1
    /\ live = {globalPanel}

\* C8: with 'syntaxExtractor.openGui' at most one webview panel is live at a
\* time, however often the command is invoked.
C8_OpenGuiSinglePanel == variant = "gui" => Cardinality(live) <= 1

----------------------------------------------------------------------------
(* Claims checked under SpecClip *)

\* C2: every updateClipboardDataBox message posted by clipBoardPolling, for
\* the initial read and for an interval tick alike, carries the tokenCount and
\* the charCount computed from the content it forwards.
C2_UpdatesCarryCounts ==
    \A p \in Panels :
        box[p] # <<>> =>
            /\ {"tokenCount", "charCount"} \subseteq DOMAIN box[p][1]
            /\ box[p][1].tokenCount = getTokenCount(box[p][1].content)
            /\ box[p][1].charCount = JsLength(box[p][1].content)

\* The initial read has posted its message, which carries the counts.
C2_Witness ==
    \E p \in live :
        /\ box[p] # <<>>
        /\ "tokenCount" \in DOMAIN box[p][1]

\* C9: between two changes of the system clipboard content the webview of a
\* live panel receives at most one updateClipboardDataBox message for that
\* content, whatever panel creations and visibility changes have occurred.
C9_ForwardsOnlyNew == \A p \in live : fwd[p] # "again"

----------------------------------------------------------------------------
(* Claims checked under SpecLive *)

\* The last updateClipboardDataBox message posted to panel p carries c.
Shown(p, c) == box[p] # <<>> /\ box[p][1].content = c

\* As Shown; a panel that was posted no such message shows the empty text.
ShownOrBlank(p, c) == IF box[p] = <<>> THEN c = EmptyText ELSE box[p][1].content = c

\* C10 as claimed: while a panel is live, if the clipboard content changes to
\* a value and stays at it, an updateClipboardDataBox message carrying that
\* value is posted to the panel and is, in the end, the last one posted to it.
\* (The clipboard changes finitely often: a panel that was live at the last
\* change again and again shows the clipboard's content.)
C10_Original ==
    \A p \in Panels :
        []<>(p \notin live \/ p \notin sinceChange \/ Shown(p, clipboard))

\* C10 as amended: while a panel is live, if the clipboard content changes to
\* a value and stays at it, the last updateClipboardDataBox message posted to
\* the panel carries, in the end, that value, or the value is the empty text
\* and no such message was ever posted to the panel.
C10_EventuallyShown ==
    \A p \in Panels :
        []<>(p \notin live \/ p \notin sinceChange \/ ShownOrBlank(p, clipboard))

\* A read that settled out of order had overwritten the panel's box with a
\* stale content, and the box shows the clipboard's content again.
C10_Witness ==
    \E p \in live, i \in 1..Len(pollers) :
        /\ p \in sinceChange
        /\ clipLeft = 0
        /\ pollers[i].panel = p
        /\ pollers[i].last = clipboard
        /\ clipboard # EmptyText
        /\ Shown(p, clipboard)
        /\ fwd[p] = "again"

----------------------------------------------------------------------------
(* Claims checked under SpecMsg *)

\* The messages the last step posted that carry a character count.
CharCounts == {posted[k].count : k \in {j \in DOMAIN posted : posted[j].command = "setCharCount"}}

\* C3: the character count reported for a text (setCharCount, posted for
\* 'countChars' and for 'requestCounts') is the number of Unicode scalar values
\* of the text, also for a text with characters of two UTF-16 code units, and
\* 0 for the empty text.
C3_CharCountIsScalarCount ==
    [][\A t \in Texts :
         (\/ HandleMessage([command |-> "countChars", text |-> t], MsgBounds)
          \/ HandleMessage([command |-> "requestCounts", text |-> t], MsgBounds))
         => CharCounts' = {ScalarCount(t)}]_vars

\* A file-type suffix of the store's invariant: not empty, begins with a dot,
\* and holds no upper-case letter (code points 65..90).
ValidType(t) ==
    /\ Len(t) > 0
    /\ t[1] = 46
    /\ \A k \in 1..Len(t) : ~(t[k] >= 65 /\ t[k] <= 90)

\* C5: in every state reachable by 'setFileTypes' and 'updateFileTypes'
\* messages, every entry of the stored file-type list is non-empty,
\* lower-cased and begins with a dot.
C5_FileTypesValid == \A k \in 1..Len(fileTypes) : ValidType(fileTypes[k])

----------------------------------------------------------------------------
(* Claims checked under SpecAct *)

\* C6: during one activation activate runs initializeFileTypeConfiguration at
\* most once, and it runs it exactly when .vscode/settings.json cannot be
\* read, also when no workspace folder is open.
C6_SeedsExactlyWhenUnreadable ==
    /\ actInitRuns <= 1
    /\ actPc \in {"done", "failed"} =>
         (actInitRuns = 1 <=> ~settingsReadable)

\* The parts of C6 that hold: at most one run, none when settings.json is
\* readable, and then no step of activate changes the stored file types.
C6_ReadableLeavesFileTypes ==
    /\ [](actInitRuns <= 1)
    /\ [](settingsReadable => actInitRuns = 0)
    /\ [][(settingsReadable /\ actPc' # actPc) => fileTypes' = fileTypes]_vars

\* activate has ended after seeding the file types.
C6_Witness ==
    /\ actPc = "done"
    /\ actInitRuns = 1
    /\ ~settingsReadable

----------------------------------------------------------------------------
(* Further claims checked under SpecMsg *)

\* A message whose case awaits nothing is handled.
SyncHandled ==
    \/ HandleMessage([command |-> "openWebpage"], MsgBounds)
    \/ HandleMessage([command |-> "unknown"], MsgBounds)
    \/ \E t \in Texts : HandleMessage([command |-> "countTokens", text |-> t], MsgBounds)
    \/ \E t \in Texts : HandleMessage([command |-> "countChars", text |-> t], MsgBounds)
    \/ \E t \in Texts : HandleMessage([command |-> "requestCounts", text |-> t], MsgBounds)

\* The last message the step posts is the configUpdated message for panel p
\* that carries the three values the store holds, and no message before it
\* is one.
EndsWithConfigUpdated(p) ==
    /\ Len(posted') > 0
    /\ posted'[Len(posted')] =
         ConfigUpdatedMsg(p, fileTypes', compressionLevel', clipboardDataBoxHeight')
    /\ \A k \in 1..(Len(posted') - 1) : "config" \notin DOMAIN posted'[k]

\* The store holds what handler h wrote.
OwnWriteDone(h) ==
    /\ h.command \in {"setFileTypes", "updateFileTypes"} => fileTypes' = h.cur
    /\ h.command = "setCompressionLevel" => compressionLevel' = h.cur
    /\ h.command = "setClipboardDataBoxHeight" => clipboardDataBoxHeight' = h.cur

----------------------------------------------------------------------------
(* Claims checked under SpecToggle *)

\* t is an entry of list.
Has(list, t) == \E k \in 1..Len(list) : list[k] = t

\* The entries of list other than t, in their order.
RECURSIVE Without(_, _)
Without(list, t) ==
    IF list = <<>> THEN <<>>
    ELSE IF Head(list) = t THEN Without(Tail(list), t)
    ELSE <<Head(list)>> \o Without(Tail(list), t)

Entries(list) == {list[k] : k \in 1..Len(list)}

\* Handler i is the only one suspended, it handles 'updateFileTypes', and the
\* store holds the list the handler read.
AloneToggling(i) ==
    /\ i = 1
    /\ Len(handlers) = 1
    /\ handlers[1].command = "updateFileTypes"
    /\ handlers[1].base = fileTypes

\* C12: an 'updateFileTypes' message for t, handled in isolation, toggles the
\* membership of t: afterwards t is in the stored list iff it was not in it
\* before, every other entry is kept in its relative order, and handling the
\* same message once more restores the entries of the original list; for
\* every list reachable through 'setFileTypes' and 'updateFileTypes' messages.
C12_ToggleMembership ==
    [][\A i \in 1..MaxHandlers :
         (AloneToggling(i) /\ HandlerResume(i)) =>
            LET t == handlers[i].arg IN
            /\ Has(fileTypes', t) <=> ~Has(fileTypes, t)
            /\ Without(fileTypes', t) = Without(fileTypes, t)
            /\ Entries(ToggleFileType(fileTypes', t)) = Entries(fileTypes)]_vars

\* Two handlers of 'updateFileTypes' messages for different suffixes are
\* suspended, both having read the list the store still holds: the second
\* one started before the awaited setFileTypes of the first one completed.
Overlapping ==
    /\ Len(handlers) = 2
    /\ handlers[1].command = "updateFileTypes"
    /\ handlers[2].command = "updateFileTypes"
    /\ handlers[1].arg # handlers[2].arg
    /\ handlers[1].base = fileTypes
    /\ handlers[2].base = fileTypes

\* The membership of both a and b in list differs from that in original.
BothToggled(original, a, b, list) ==
    /\ Has(list, a) <=> ~Has(original, a)
    /\ Has(list, b) <=> ~Has(original, b)

\* C13: no toggle is lost under interleaving.  When two overlapping
\* 'updateFileTypes' handlers for different suffixes a and b finish, in either
\* order, the stored list has the membership of both a and b toggled relative
\* to the list before the first message.  (The formula looks at the step in
\* which the first of the two finishes: the list stored after both is the one
\* the handler still suspended has passed to setFileTypes.)
C13_NoToggleLost ==
    [][\A i \in 1..MaxHandlers :
         (Overlapping /\ HandlerResume(i)) =>
            BothToggled(fileTypes, handlers[1].arg, handlers[2].arg,
                        handlers'[1].cur)]_vars

----------------------------------------------------------------------------
(* Further claims checked under Spec *)

\* The panel's content is the asset's text or the error-message text.
HasContent(p) == html[p] \in {"content", "error"}

\* C15: opening the panel never fails because webview.html cannot be read.
\* When the read fails, getWebviewContent (entry point "js") and
\* composeWebViewContent return an error-message text that becomes the
\* panel's content, no exception reaches the caller of the open command (the
\* command runs to its end: the panel it created is live, tracked by the panel
\* reference, and has content or, under "ts", a load in flight), and the
\* panel stays live and tracked.
C15_OpenNeverFails ==
    /\ [](variant = "js" =>
            \A p \in live : currentPanel = p /\ HasContent(p))
    /\ [](variant = "ts" =>
            \A p \in live : globalPanel = p /\ (HasContent(p) \/ p \in loading))
    /\ [][(variant = "js" /\ currentPanel = Undefined /\ showWebview(FALSE)) =>
            /\ html'[nextId'] = "error"
            /\ live' = {nextId'}
            /\ currentPanel' = nextId']_vars
    /\ [][\A p \in Panels :
            HtmlLoadDone(p, FALSE) =>
              /\ html'[p] = "error"
              /\ live' = live
              /\ globalPanel' = globalPanel]_vars

\* The read of webview.html has failed for the live panel, which shows the
\* error-message text and is the one the panel reference tracks.
C15_Witness ==
    /\ variant \in {"js", "ts"}
    /\ \E p \in live : html[p] = "error" /\ PanelRef = p

----------------------------------------------------------------------------
(* Claims checked under SpecClose *)

\* C14: a panel is never written to after it has been disposed.  Once
\* onDidDispose has fired for a panel, its html is not assigned (the load
\* started at creation), no message handler that was awaiting when the panel
\* closed posts to it, and no clipboard poller started for it posts to it (a
\* poller that posts takes the content it posts as its last known one).
C14_NoWriteAfterDispose ==
    [][/\ \A p \in Panels : p \notin live => html'[p] = html[p]
       /\ \A i \in 1..MsgHandlers : HandlerResume(i) => handlers[i].panel \in live
       /\ \A i \in 1..Len(pollers) :
            pollers'[i].last # pollers[i].last => pollers[i].panel \in live]_vars

----------------------------------------------------------------------------
(* Further claims checked under SpecAct *)

\* activate is going to run initializeFileTypeConfiguration, or awaits it.
SeedingAhead ==
    \/ actPc = "initializing"
    \/ actPc = "checking" /\ settingsFileExists = "false"

\* The step posts an initConfig message.
PostsInitConfig ==
    /\ posted' # posted
    /\ \E k \in 1..Len(posted') : posted'[k].command = "initConfig"

\* C16: an initConfig message never carries file types older than the seeding
\* done at activation.  If activate runs initializeFileTypeConfiguration, no
\* initConfig message is posted to a panel before that run has completed,
\* also when the open command or the tree-view-visible event occurs while
\* activate is awaiting.
C16_InitConfigAfterSeeding == [][PostsInitConfig => ~SeedingAhead]_vars

====
